---------------------------- MODULE Spec2Model ----------------------------
(***************************************************************************)
(* pdftoc: heading detection from styled text spans (detect.py), the      *)
(* editable TOC text format and the command line driver (cli.py), and the *)
(* bookmark writer's input (writer.py).                                    *)
(*                                                                         *)
(* Representation.  A Python str is a sequence of one-character strings.  *)
(* A float font size, score or coordinate is an integer number of         *)
(* hundredths (extract.py rounds sizes to 2 decimals); differences of two *)
(* floats within a factor 2 of each other are exact, so the comparisons   *)
(* against 0.5 and 2.0 are the comparisons against 50 and 200 here.        *)
(* A Counter / dict is a sequence of entries in insertion order.           *)
(***************************************************************************)
EXTENDS Integers, Sequences, FiniteSets, TLC

VARIABLES
    pc,             \* position of the run: "start" or "done"
    spans,          \* list[Span] handed to detect_headings / _find_body_size
    total_pages,    \* total_pages argument (len(doc))
    max_level,      \* max_level argument
    body_size,      \* local body_size of detect_headings
    recurring,      \* local recurring of detect_headings
    skipped,        \* per span: which `continue` of step 3 it took, or "kept"
    candidates,     \* local candidates before step 4 / input of the line merger
    merged,         \* candidates after _merge_spans_on_same_line
    scores,         \* list of scores handed to _cluster_levels
    score_to_level, \* dict returned by _cluster_levels
    raw,            \* headings built in step 6 (before _fix_level_gaps)
    headings,       \* heading list: detect_headings' result / format_toc's input
    toc_text,       \* text produced by format_toc
    parsed,         \* outcome of parse_toc: [exit |-> 0 or 1, headings |-> ...]
    args,           \* parsed command line of main
    env,            \* files and editor main meets
    exit_status,    \* sys.exit status of main (0 when it returns)
    message,        \* which message main printed last
    written         \* calls of write_toc: sequence of toc lists

vars == <<pc, spans, total_pages, max_level, body_size, recurring, skipped,
          candidates, merged, scores, score_to_level, raw, headings,
          toc_text, parsed, args, env, exit_status, message, written>>

-----------------------------------------------------------------------------
(* Bounds of the checked inputs *)

MaxBodySpans == 3

MaxScores == 4

MaxCands == 3

MaxLevelSpans == 4

MaxLevelArg == 3

MaxRecSpans == 3

MaxShortSpans == 3

MaxTocHeadings == 2

MaxTocLines == 2

-----------------------------------------------------------------------------
(* Generic helpers *)

BoundedSeq(S, n) == UNION {[1..k -> S] : k \in 0..n}

Max2(a, b) == IF a >= b THEN a ELSE b

Min2(a, b) == IF a <= b THEN a ELSE b

Abs(a) == IF a < 0 THEN -a ELSE a

-----------------------------------------------------------------------------
(* Characters and str methods *)

Digits == {"0", "1", "2", "3", "4", "5", "6", "7", "8", "9"}

\* str.isspace for the characters of the model's alphabet
IsSpace(c) == c \in {" ", "\t", "\n"}

\* str.lower on one character
LowerChar(c) ==
    CASE c = "A" -> "a" [] c = "B" -> "b" [] c = "C" -> "c" [] c = "D" -> "d"
      [] c = "E" -> "e" [] c = "F" -> "f" [] c = "G" -> "g" [] c = "H" -> "h"
      [] c = "I" -> "i" [] c = "J" -> "j" [] c = "K" -> "k" [] c = "L" -> "l"
      [] c = "M" -> "m" [] c = "N" -> "n" [] c = "O" -> "o" [] c = "P" -> "p"
      [] c = "Q" -> "q" [] c = "R" -> "r" [] c = "S" -> "s" [] c = "T" -> "t"
      [] c = "U" -> "u" [] c = "V" -> "v" [] c = "W" -> "w" [] c = "X" -> "x"
      [] c = "Y" -> "y" [] c = "Z" -> "z"
      [] OTHER -> c

lower(s) == [i \in 1..Len(s) |-> LowerChar(s[i])]

RECURSIVE lstrip(_)
lstrip(s) == IF s # <<>> /\ IsSpace(Head(s)) THEN lstrip(Tail(s)) ELSE s

RECURSIVE rstrip(_)
rstrip(s) ==
    IF s # <<>> /\ IsSpace(s[Len(s)]) THEN rstrip(SubSeq(s, 1, Len(s) - 1)) ELSE s

strip(s) == rstrip(lstrip(s))

-----------------------------------------------------------------------------
(* detect.py: body-size estimator *)

\* counts[size] += n on a Counter kept in insertion order
CounterAdd(counts, key, n) ==
    IF \E i \in 1..Len(counts) : counts[i].key = key
    THEN [i \in 1..Len(counts) |->
            IF counts[i].key = key
            THEN [key |-> key, count |-> counts[i].count + n]
            ELSE counts[i]]
    ELSE Append(counts, [key |-> key, count |-> n])

RECURSIVE CharCountFrom(_, _, _)
CharCountFrom(ss, i, counts) ==
    IF i > Len(ss) THEN counts
    ELSE CharCountFrom(ss, i + 1, CounterAdd(counts, ss[i].size, Len(ss[i].text)))

_char_count_by_size(ss) == CharCountFrom(ss, 1, <<>>)

\* A wrong most_common(1): the last entry holding the greatest count
MostCommonLast(counts) ==
    LET best == CHOOSE i \in 1..Len(counts) :
                  /\ \A j \in 1..Len(counts) : counts[j].count <= counts[i].count
                  /\ \A j \in (i + 1)..Len(counts) : counts[j].count < counts[i].count
    IN counts[best]

\* Counter.most_common(1)[0]: max(items, key=count), the first entry holding
\* the greatest count in insertion order
MostCommon(counts) ==
    LET best == CHOOSE i \in 1..Len(counts) :
                  /\ \A j \in 1..Len(counts) : counts[j].count <= counts[i].count
                  /\ \A j \in 1..(i - 1) : counts[j].count < counts[i].count
    IN counts[best]

_find_body_size(ss) == MostCommon(_char_count_by_size(ss)).key

-----------------------------------------------------------------------------
(* detect.py: level clusterer *)

\* sorted(S, reverse=True)
RECURSIVE SortedDesc(_)
SortedDesc(S) ==
    IF S = {} THEN <<>>
    ELSE LET m == CHOOSE x \in S : \A y \in S : y <= x
         IN <<m>> \o SortedDesc(S \ {m})

\* A wrong gap test: a gap of exactly 0.5 already opens a new level
GapOpensLevelInclusive(hi, lo) == hi - lo >= 50

\* unique[i - 1] - unique[i] > 0.5
GapOpensLevel(hi, lo) == hi - lo > 50

RECURSIVE ClusterFrom(_, _, _, _)
ClusterFrom(unique, i, level, mapping) ==
    IF i > Len(unique) THEN mapping
    ELSE LET lv == IF GapOpensLevel(unique[i - 1], unique[i]) THEN level + 1 ELSE level
         IN ClusterFrom(unique, i + 1, lv, mapping @@ (unique[i] :> lv))

_cluster_levels(sc) ==
    LET unique == SortedDesc({sc[i] : i \in 1..Len(sc)})
    IN IF unique = <<>> THEN <<>>
       ELSE ClusterFrom(unique, 2, 1, unique[1] :> 1)

-----------------------------------------------------------------------------
(* detect.py: line merger *)

\* (bbox[1] + bbox[3]) / 2, doubled to stay in the integers
YCenter2(bbox) == bbox[2] + bbox[4]

\* c["page"] == prev["page"] and abs(center(c) - center(prev)) < 2.0
SameLine(c, prev) ==
    /\ c.page = prev.page
    /\ Abs(YCenter2(c.bbox) - YCenter2(prev.bbox)) < 2 * 200

\* prev["text"] = prev["text"] + " " + c["text"]; prev["bbox"] = union
Extend(prev, c) ==
    [prev EXCEPT !.text = prev.text \o <<" ">> \o c.text,
                 !.bbox = <<Min2(prev.bbox[1], c.bbox[1]), Min2(prev.bbox[2], c.bbox[2]),
                            Max2(prev.bbox[3], c.bbox[3]), Max2(prev.bbox[4], c.bbox[4])>>]

RECURSIVE MergeFrom(_, _, _)
MergeFrom(cands, i, acc) ==
    IF i > Len(cands) THEN acc
    ELSE LET c == cands[i]
             prev == acc[Len(acc)]
         IN IF SameLine(c, prev)
            THEN MergeFrom(cands, i + 1, [acc EXCEPT ![Len(acc)] = Extend(prev, c)])
            ELSE MergeFrom(cands, i + 1, Append(acc, c))

_merge_spans_on_same_line(cands) ==
    IF cands = <<>> THEN <<>> ELSE MergeFrom(cands, 2, <<cands[1]>>)

-----------------------------------------------------------------------------
(* detect.py: noise filters *)

A4Height == 84200

zone_frac == 8

threshold == 30

top_zone == (A4Height * zone_frac) \div 100

bot_zone == (A4Height * (100 - zone_frac)) \div 100

\* y_top < top_zone or y_bot > bot_zone
InZone(s) == s.bbox[2] < top_zone \/ s.bbox[4] > bot_zone

\* s.text.strip().lower()
Normalized(s) == lower(strip(s.text))

\* A wrong zone bookkeeping: every zone occurrence counts, also a second one of
\* the same text on the same page
ZoneStepNoDedup(s, acc) ==
    IF InZone(s) /\ Normalized(s) # <<>>
    THEN [seen |-> acc.seen \cup {<<s.page, Normalized(s)>>},
          zone_texts |-> CounterAdd(acc.zone_texts, Normalized(s), 1)]
    ELSE acc

\* the body of the loop over spans: seen_per_page and zone_texts after span s
ZoneStep(s, acc) ==
    IF /\ InZone(s)
       /\ Normalized(s) # <<>>
       /\ <<s.page, Normalized(s)>> \notin acc.seen
    THEN [seen |-> acc.seen \cup {<<s.page, Normalized(s)>>},
          zone_texts |-> CounterAdd(acc.zone_texts, Normalized(s), 1)]
    ELSE acc

RECURSIVE ZoneFrom(_, _, _)
ZoneFrom(ss, i, acc) ==
    IF i > Len(ss) THEN acc ELSE ZoneFrom(ss, i + 1, ZoneStep(ss[i], acc))

\* max(2, int(total_pages * threshold))
min_count(tp) == Max2(2, (tp * threshold) \div 100)

_find_recurring_texts(ss, tp) ==
    IF tp < 3 THEN {}
    ELSE LET zt == ZoneFrom(ss, 1, [seen |-> {}, zone_texts |-> <<>>]).zone_texts
         IN {zt[i].key : i \in {j \in 1..Len(zt) : zt[j].count >= min_count(tp)}}

AllChars(s, P(_)) == s # <<>> /\ \A i \in 1..Len(s) : P(s[i])

IsDigit(c) == c \in Digits

IsRoman(c) == LowerChar(c) \in {"i", "v", "x", "l", "c", "d", "m"}

\* s starts (ignoring case) with the lower-case word w
StartsWithCI(s, w) == Len(s) >= Len(w) /\ lower(SubSeq(s, 1, Len(w))) = w

\* number of whitespace characters of s from position i on
RECURSIVE SpaceRun(_, _)
SpaceRun(s, i) == IF i <= Len(s) /\ IsSpace(s[i]) THEN 1 + SpaceRun(s, i + 1) ELSE 0

\* re.fullmatch(r"page\s+\d+", s, re.IGNORECASE)
IsPageWord(s) ==
    /\ StartsWithCI(s, <<"p", "a", "g", "e">>)
    /\ SpaceRun(s, 5) >= 1
    /\ AllChars(SubSeq(s, 5 + SpaceRun(s, 5), Len(s)), IsDigit)

_is_page_number(text) ==
    LET stripped == strip(text)
    IN \/ AllChars(stripped, IsDigit)
       \/ AllChars(stripped, IsRoman)
       \/ IsPageWord(stripped)

CaptionWords ==
    { <<"f", "i", "g", "u", "r", "e">>, <<"f", "i", "g", ".">>,
      <<"t", "a", "b", "l", "e">>, <<"l", "i", "s", "t", "i", "n", "g">>,
      <<"a", "l", "g", "o", "r", "i", "t", "h", "m">> }

\* re.match(r"^(Figure|Fig\.|Table|Listing|Algorithm)\s+\d", text, re.IGNORECASE)
_is_caption(text) ==
    \E w \in CaptionWords :
        /\ StartsWithCI(text, w)
        /\ SpaceRun(text, Len(w) + 1) >= 1
        /\ LET d == Len(w) + 1 + SpaceRun(text, Len(w) + 1)
           IN d <= Len(text) /\ IsDigit(text[d])

-----------------------------------------------------------------------------
(* detect.py: candidate selector *)

_effective_score(size, bold) == size + (IF bold THEN 200 ELSE 0)

\* len(s.text.strip()) < 2 and not re.match(r"^\d", s.text.strip())
TooShort(text) ==
    LET t == strip(text)
    IN Len(t) < 2 /\ ~(t # <<>> /\ IsDigit(t[1]))

\* which `continue` of the candidate loop span s takes; "kept" when none
SkipReason(s, rec, body) ==
    IF Normalized(s) \in rec THEN "recurring"
    ELSE IF _is_page_number(s.text) THEN "page_number"
    ELSE IF _is_caption(s.text) THEN "caption"
    ELSE IF _effective_score(s.size, s.bold) <= _effective_score(body, FALSE) THEN "score"
    ELSE IF TooShort(s.text) THEN "short"
    ELSE "kept"

Candidate(s) ==
    [text |-> strip(s.text), size |-> s.size, bold |-> s.bold,
     score |-> _effective_score(s.size, s.bold), bbox |-> s.bbox, page |-> s.page]

RECURSIVE CandidatesFrom(_, _, _, _)
CandidatesFrom(ss, i, rec, body) ==
    IF i > Len(ss) THEN <<>>
    ELSE (IF SkipReason(ss[i], rec, body) = "kept" THEN <<Candidate(ss[i])>> ELSE <<>>)
         \o CandidatesFrom(ss, i + 1, rec, body)

-----------------------------------------------------------------------------
(* detect.py: hierarchy repairer and detect_headings *)

Heading(text, level, page) == [text |-> text, level |-> level, page |-> page]

\* while level_stack and level_stack[-1] >= h.level: level_stack.pop()
RECURSIVE PopWhile(_, _)
PopWhile(stack, level) ==
    IF stack # <<>> /\ stack[Len(stack)] >= level
    THEN PopWhile(SubSeq(stack, 1, Len(stack) - 1), level)
    ELSE stack

\* A wrong output level: the depth of the stack, one too small
OutLevelDepth(stack) == Len(stack)

\* out_level = len(level_stack) + 1
OutLevel(stack) == Len(stack) + 1

RECURSIVE FixFrom(_, _, _, _)
FixFrom(hs, i, fixed, stack) ==
    IF i > Len(hs) THEN fixed
    ELSE LET h == hs[i]
         IN IF stack = <<>>
            THEN FixFrom(hs, i + 1, Append(fixed, Heading(h.text, 1, h.page)),
                         <<h.level>>)
            ELSE LET st == PopWhile(stack, h.level)
                 IN FixFrom(hs, i + 1,
                            Append(fixed, Heading(h.text, OutLevel(st), h.page)),
                            Append(st, h.level))

\* A wrong repair: the raw levels are returned as they are
FixLevelGapsIdentity(hs) == hs

_fix_level_gaps(hs) == IF hs = <<>> THEN hs ELSE FixFrom(hs, 1, <<>>, <<>>)

\* step 6: one heading per merged candidate whose level is within max_level
RECURSIVE BuildFrom(_, _, _, _)
BuildFrom(cands, i, s2l, maxl) ==
    IF i > Len(cands) THEN <<>>
    ELSE LET level == s2l[cands[i].score]
         IN (IF level > maxl THEN <<>>
             ELSE <<Heading(cands[i].text, level, cands[i].page)>>)
            \o BuildFrom(cands, i + 1, s2l, maxl)

\* [h for h in headings if h.level <= max_level]
WithinMax(hs, maxl) == SelectSeq(hs, LAMBDA h : h.level <= maxl)

\* detect_headings, returning its locals along with its result
detect_headings(ss, tp, maxl) ==
    IF ss = <<>>
    THEN [body_size |-> 0, recurring |-> {}, skipped |-> <<>>, candidates |-> <<>>,
          merged |-> <<>>, score_to_level |-> <<>>, raw |-> <<>>, headings |-> <<>>]
    ELSE
    LET body == _find_body_size(ss)
        rec == _find_recurring_texts(ss, tp)
        skip == [i \in 1..Len(ss) |-> SkipReason(ss[i], rec, body)]
        cands == CandidatesFrom(ss, 1, rec, body)
        mrg == _merge_spans_on_same_line(cands)
        s2l == _cluster_levels([i \in 1..Len(mrg) |-> mrg[i].score])
        built == BuildFrom(mrg, 1, s2l, maxl)
    IN [body_size |-> body, recurring |-> rec, skipped |-> skip, candidates |-> cands,
        merged |-> mrg, score_to_level |-> s2l,
        raw |-> IF mrg = <<>> THEN <<>> ELSE built,
        headings |-> IF mrg = <<>> THEN <<>>
                     ELSE WithinMax(_fix_level_gaps(built), maxl)]

-----------------------------------------------------------------------------
(* cli.py: the editable TOC text format *)

\* " " * n (empty when n <= 0)
RECURSIVE Spaces(_)
Spaces(n) == IF n <= 0 THEN <<>> ELSE <<" ">> \o Spaces(n - 1)

DigitChar(d) == <<"0", "1", "2", "3", "4", "5", "6", "7", "8", "9">>[d + 1]

\* str(n) of an int
RECURSIVE str(_)
str(n) ==
    IF n < 0 THEN <<"-">> \o str(-n)
    ELSE IF n < 10 THEN <<DigitChar(n)>>
    ELSE str(n \div 10) \o <<DigitChar(n % 10)>>

DigitValue(c) == CHOOSE d \in 0..9 : DigitChar(d) = c

\* int(s) of a string of digits
RECURSIVE int(_)
int(s) ==
    IF s = <<>> THEN 0 ELSE 10 * int(SubSeq(s, 1, Len(s) - 1)) + DigitValue(s[Len(s)])

\* indent = "  " * (h.level - 1)
Indent(level) == Spaces(2 * (level - 1))

\* f"{indent}{h.text}  (p. {h.page + 1})"
FormatLine(h) ==
    Indent(h.level) \o h.text \o <<" ", " ", "(", "p", ".", " ">> \o str(h.page + 1) \o <<")">>

RECURSIVE JoinLines(_)
JoinLines(lines) ==
    IF lines = <<>> THEN <<>>
    ELSE IF Len(lines) = 1 THEN lines[1]
    ELSE lines[1] \o <<"\n">> \o JoinLines(Tail(lines))

\* "\n".join(lines) + "\n"
format_toc(hs) == JoinLines([i \in 1..Len(hs) |-> FormatLine(hs[i])]) \o <<"\n">>

\* str.splitlines(): pieces between line breaks, no empty piece after a final break
RECURSIVE SplitFrom(_, _, _)
SplitFrom(text, i, cur) ==
    IF i > Len(text) THEN (IF cur = <<>> THEN <<>> ELSE <<cur>>)
    ELSE IF text[i] = "\n" THEN <<cur>> \o SplitFrom(text, i + 1, <<>>)
    ELSE SplitFrom(text, i + 1, Append(cur, text[i]))

splitlines(text) == SplitFrom(text, 1, <<>>)

\* number of digits of s from position i on
RECURSIVE DigitRun(_, _)
DigitRun(s, i) == IF i <= Len(s) /\ IsDigit(s[i]) THEN 1 + DigitRun(s, i + 1) ELSE 0

\* number of " " characters of s from position i on
RECURSIVE BlankRun(_, _)
BlankRun(s, i) == IF i <= Len(s) /\ s[i] = " " THEN 1 + BlankRun(s, i + 1) ELSE 0

\* whether \s{2,}\(p\.\s*(\d+)\)\s*$ matches line from position p on, and where
\* its digits are; every piece is followed by a character it cannot match, so
\* each repetition takes its whole run
TailAt(line, p) ==
    LET w == SpaceRun(line, p)
        q == p + w
        v == SpaceRun(line, q + 3)
        d == q + 3 + v
        n == DigitRun(line, d)
        e == d + n
    IN [ok |-> /\ w >= 2
               /\ q + 2 <= Len(line)
               /\ line[q] = "(" /\ line[q + 1] = "p" /\ line[q + 2] = "."
               /\ n >= 1
               /\ e <= Len(line) /\ line[e] = ")"
               /\ e + SpaceRun(line, e + 1) = Len(line),
        digits |-> SubSeq(line, d, e - 1)]

\* pattern.match(line) for ^( *)(.*?)\s{2,}\(p\.\s*(\d+)\)\s*$ : the first
\* success of the backtracking search, group 1 from its longest run of blanks
\* down, group 2 from the empty string up
Match(line) ==
    LET starts == {p \in 1..(Len(line) + 1) : TailAt(line, p).ok}
        ks == {k \in 0..BlankRun(line, 1) : \E p \in starts : p >= k + 1}
    IN IF ks = {} THEN [ok |-> FALSE, g1 |-> <<>>, g2 |-> <<>>, g3 |-> <<>>]
       ELSE LET k == CHOOSE x \in ks : \A y \in ks : y <= x
                p == CHOOSE x \in starts : x >= k + 1 /\ \A y \in starts : y >= k + 1 => x <= y
            IN [ok |-> TRUE, g1 |-> SubSeq(line, 1, k), g2 |-> SubSeq(line, k + 1, p - 1),
                g3 |-> TailAt(line, p).digits]

\* A wrong level: the indentation depth without the + 1
LevelOfIndentZeroBased(nspaces) == nspaces \div 2

\* level = spaces // 2 + 1
LevelOfIndent(nspaces) == nspaces \div 2 + 1

\* parse_toc; exit = 1 stands for its sys.exit(1)
RECURSIVE ParseFrom(_, _, _)
ParseFrom(lines, i, hs) ==
    IF i > Len(lines) THEN [exit |-> 0, headings |-> hs]
    ELSE IF strip(lines[i]) = <<>> THEN ParseFrom(lines, i + 1, hs)
    ELSE LET m == Match(lines[i])
         IN IF ~m.ok THEN [exit |-> 1, headings |-> <<>>]
            ELSE IF Len(m.g1) % 2 # 0 THEN [exit |-> 1, headings |-> <<>>]
            ELSE ParseFrom(lines, i + 1,
                           Append(hs, Heading(strip(m.g2), LevelOfIndent(Len(m.g1)),
                                              int(m.g3) - 1)))

parse_toc(text) == ParseFrom(splitlines(text), 1, <<>>)

-----------------------------------------------------------------------------
(* writer.py and cli.py: main *)

\* toc = [[h.level, h.text, h.page + 1] for h in headings]
write_toc(hs, output) ==
    [toc |-> [i \in 1..Len(hs) |-> <<hs[i].level, hs[i].text, hs[i].page + 1>>],
     output |-> output]

\* A wrong range check: the page one past the last passes
PageOutOfRangeOffByOne(h, num_pages) == h.page < 0 \/ h.page > num_pages

\* h.page < 0 or h.page >= num_pages
PageOutOfRange(h, num_pages) == h.page < 0 \/ h.page >= num_pages

OutputPath(a) ==
    IF a.preview THEN "None"
    ELSE IF a.replace THEN "input"
    ELSE IF a.output THEN "output"
    ELSE "input_toc"

Outcome(status, msg, hs, w) ==
    [exit_status |-> status, message |-> msg, headings |-> hs, written |-> w]

\* main from the page validation on
ValidateAndWrite(a, hs, num_pages) ==
    IF \E i \in 1..Len(hs) : PageOutOfRange(hs[i], num_pages)
    THEN Outcome(1, "page out of range", hs, <<>>)
    ELSE Outcome(0, "Wrote bookmarks", hs, <<write_toc(hs, OutputPath(a))>>)

\* main from the preview test on, with the headings of the first stage
AfterHeadings(a, e, hs, num_pages) ==
    IF a.preview THEN Outcome(0, "preview", hs, <<>>)
    ELSE IF a.edit
    THEN IF e.editor = "missing" THEN Outcome(1, "editor not found", hs, <<>>)
         ELSE IF e.editor = "fails" THEN Outcome(1, "editor exited with code", hs, <<>>)
         ELSE LET edited_text == IF e.edit_keeps THEN format_toc(hs) ELSE e.edited
                  r == parse_toc(edited_text)
              IN IF r.exit # 0 THEN Outcome(1, "malformed TOC line", hs, <<>>)
                 ELSE IF r.headings = <<>>
                 THEN Outcome(0, "No headings after editing", r.headings, <<>>)
                 ELSE ValidateAndWrite(a, r.headings, num_pages)
    ELSE ValidateAndWrite(a, hs, num_pages)

\* main(argv) on a parsed command line a, the files and editor e, and the
\* document (its page count and the spans extract_spans yields)
main(a, e, ss, num_pages) ==
    IF a.edit /\ a.toc THEN Outcome(1, "--edit and --toc are mutually exclusive", <<>>, <<>>)
    ELSE IF a.preview /\ (a.edit \/ a.toc)
    THEN Outcome(1, "--preview is mutually exclusive", <<>>, <<>>)
    ELSE IF ~e.input_exists THEN Outcome(1, "file not found", <<>>, <<>>)
    ELSE IF a.toc
    THEN IF ~e.toc_exists THEN Outcome(1, "TOC file not found", <<>>, <<>>)
         ELSE LET r == parse_toc(e.toc_file)
              IN IF r.exit # 0 THEN Outcome(1, "malformed TOC line", <<>>, <<>>)
                 ELSE IF r.headings = <<>> THEN Outcome(1, "TOC file is empty", <<>>, <<>>)
                 ELSE AfterHeadings(a, e, r.headings, num_pages)
    ELSE LET hs == detect_headings(ss, num_pages, a.max_level).headings
         IN IF hs = <<>> THEN Outcome(0, "No headings detected", hs, <<>>)
            ELSE AfterHeadings(a, e, hs, num_pages)

-----------------------------------------------------------------------------
(* Texts and records used as inputs *)

TBody == <<"L", "o", "r", "e", "m", " ", "i", "p", "s", "u", "m">>
TAb == <<"A", "b">>
TCd == <<"C", "d">>
TEf == <<"E", "f">>
TGh == <<"G", "h">>
TSec == <<"S", "e", "c">>
TOne == <<"1">>

Box(y0, y1) == <<7200, y0, 30000, y1>>

MkSpan(text, size, bold, bbox, page) ==
    [text |-> text, size |-> size, bold |-> bold, font |-> "f",
     bbox |-> bbox, page |-> page]

\* Variables a specification does not use keep these values
IdleSpans == spans = <<>>

IdleDetect ==
    /\ total_pages = 0 /\ max_level = 0 /\ body_size = 0 /\ recurring = {}
    /\ skipped = <<>> /\ raw = <<>>

IdleMerge == candidates = <<>> /\ merged = <<>>

IdleCluster == scores = <<>> /\ score_to_level = <<>>

IdleToc == headings = <<>> /\ toc_text = <<>> /\ parsed = [exit |-> 0, headings |-> <<>>]

IdleCli ==
    /\ args = [mode |-> "none"] /\ env = [none |-> TRUE]
    /\ exit_status = 0 /\ message = "" /\ written = <<>>

-----------------------------------------------------------------------------
(* Specification of the body-size estimator on its own *)

BodySpanDom ==
    {MkSpan(t, s, FALSE, Box(10000, 11000), 0) :
        t \in {TAb, TCd, TOne, TSec}, s \in {1000, 1200, 1400}}

InitBody ==
    /\ pc = "start"
    /\ spans \in BoundedSeq(BodySpanDom, MaxBodySpans)
    /\ IdleDetect /\ IdleMerge /\ IdleCluster /\ IdleToc /\ IdleCli

\* body_size = _find_body_size(spans); the caller special-cases the empty list
FindBodySize ==
    /\ pc = "start"
    /\ spans # <<>>
    /\ body_size' = _find_body_size(spans)
    /\ pc' = "done"
    /\ UNCHANGED <<spans, total_pages, max_level, recurring, skipped, candidates,
                   merged, scores, score_to_level, raw, headings, toc_text,
                   parsed, args, env, exit_status, message, written>>

NextBody == FindBodySize

SpecBody == InitBody /\ [][NextBody]_vars

\* total character count of the spans of one size
CharsOfSize(ss, size) ==
    LET RECURSIVE Sum(_)
        Sum(i) == IF i > Len(ss) THEN 0
                  ELSE (IF ss[i].size = size THEN Len(ss[i].text) ELSE 0) + Sum(i + 1)
    IN Sum(1)

SizesOf(ss) == {ss[i].size : i \in 1..Len(ss)}

TiedSizes(ss) ==
    {s \in SizesOf(ss) : \A t \in SizesOf(ss) : CharsOfSize(ss, t) <= CharsOfSize(ss, s)}

FirstIndexOfSize(ss, size) == CHOOSE i \in 1..Len(ss) :
    ss[i].size = size /\ \A j \in 1..(i - 1) : ss[j].size # size

\* C5 (as stated): the body size holds the greatest character count and, on a
\* tie, is the numerically largest of the tied sizes.
C5_LargestOnTie ==
    pc = "done" =>
        /\ body_size \in TiedSizes(spans)
        /\ \A s \in TiedSizes(spans) : s <= body_size

\* C5 (amended): the body size holds the greatest character count and, on a
\* tie, is the tied size whose first span comes earliest in the span list.
C5_FirstOnTie ==
    pc = "done" =>
        /\ body_size \in TiedSizes(spans)
        /\ \A s \in TiedSizes(spans) :
              FirstIndexOfSize(spans, body_size) <= FirstIndexOfSize(spans, s)

\* a tie between two sizes in which the smaller size occurs first
C5_Witness ==
    /\ pc = "done"
    /\ Cardinality(TiedSizes(spans)) >= 2
    /\ \E s \in TiedSizes(spans) : s > body_size

-----------------------------------------------------------------------------
(* Specification of the level clusterer on its own *)

ScoreDom == {1200, 1250, 1300, 1400, 1451, 1600}

InitCluster ==
    /\ pc = "start"
    /\ scores \in BoundedSeq(ScoreDom, MaxScores)
    /\ score_to_level = <<>>
    /\ IdleSpans /\ IdleDetect /\ IdleMerge /\ IdleToc /\ IdleCli

\* score_to_level = _cluster_levels(scores)
ClusterLevels ==
    /\ pc = "start"
    /\ score_to_level' = _cluster_levels(scores)
    /\ pc' = "done"
    /\ UNCHANGED <<spans, total_pages, max_level, body_size, recurring, skipped,
                   candidates, merged, scores, raw, headings, toc_text, parsed,
                   args, env, exit_status, message, written>>

NextCluster == ClusterLevels

SpecCluster == InitCluster /\ [][NextCluster]_vars

ScoreSet == {scores[i] : i \in 1..Len(scores)}

\* C10: the highest score has level 1; a lower score never has a smaller level;
\* every level from 1 to the largest assigned one is used; scores at most 0.5
\* apart share a level; neighbours in descending order more than 0.5 apart
\* have levels that differ by exactly 1.
C10_Clustering ==
    (pc = "done" /\ scores # <<>>) =>
        LET m == score_to_level
            S == ScoreSet
        IN /\ DOMAIN m = S
           /\ \A a \in S : (\A b \in S : b <= a) => m[a] = 1
           /\ \A a, b \in S : a > b => m[a] <= m[b]
           /\ \A a \in S : \A l \in 1..m[a] : \E b \in S : m[b] = l
           /\ \A a, b \in S : Abs(a - b) <= 50 => m[a] = m[b]
           /\ \A a, b \in S :
                (a - b > 50 /\ ~\E c \in S : b < c /\ c < a) => m[b] = m[a] + 1

\* a chain of scores 0.5 apart sharing one level, with a further level below
C10_Witness ==
    /\ pc = "done"
    /\ \E a, b, c \in ScoreSet :
          /\ a - b = 50 /\ b - c = 50
          /\ score_to_level[a] = score_to_level[c]
    /\ \E a \in ScoreSet : score_to_level[a] >= 2

-----------------------------------------------------------------------------
(* Specification of the line merger on its own *)

MkCand(text, bbox, page) ==
    [text |-> text, size |-> 1400, bold |-> FALSE, score |-> 1400,
     bbox |-> bbox, page |-> page]

\* three overlapping boxes whose centers are 1.5pt apart, and one far below
MergeBoxes ==
    {Box(10000, 12000), Box(10150, 12150), Box(10300, 12300), Box(40000, 42000)}

MergeCandDom == {MkCand(t, b, p) : t \in {TAb, TOne}, b \in MergeBoxes, p \in {0, 1}}

InitMerge ==
    /\ pc = "start"
    /\ candidates \in BoundedSeq(MergeCandDom, MaxCands)
    /\ merged = <<>>
    /\ IdleSpans /\ IdleDetect /\ IdleCluster /\ IdleToc /\ IdleCli

\* merged = _merge_spans_on_same_line(candidates)
MergeSpans ==
    /\ pc = "start"
    /\ merged' = _merge_spans_on_same_line(candidates)
    /\ pc' = "done"
    /\ UNCHANGED <<spans, total_pages, max_level, body_size, recurring, skipped,
                   candidates, scores, score_to_level, raw, headings, toc_text,
                   parsed, args, env, exit_status, message, written>>

NextMerge == MergeSpans

SpecMerge == InitMerge /\ [][NextMerge]_vars

\* the record each input candidate ends up in, found by merging the candidates
\* with their texts replaced by position tags
TagOf(i) == <<"#1", "#2", "#3", "#4", "#5", "#6">>[i]

TaggedMerge(cands) ==
    _merge_spans_on_same_line(
        [i \in 1..Len(cands) |-> [cands[i] EXCEPT !.text = <<TagOf(i)>>]])

MembersOf(cands, k) ==
    LET t == TaggedMerge(cands)[k].text
    IN {i \in 1..Len(cands) : \E j \in 1..Len(t) : t[j] = TagOf(i)}

RecordOf(cands, i) ==
    CHOOSE k \in 1..Len(TaggedMerge(cands)) : i \in MembersOf(cands, k)

\* the texts of candidates lo..hi joined by single spaces
RECURSIVE JoinTexts(_, _, _)
JoinTexts(cands, lo, hi) ==
    IF lo = hi THEN cands[lo].text
    ELSE JoinTexts(cands, lo, hi - 1) \o <<" ">> \o cands[hi].text

\* the vertical centers of two candidates differ by less than 2.0 points
CentersClose(c, d) ==
    Abs((c.bbox[2] + c.bbox[4]) - (d.bbox[2] + d.bbox[4])) < 400

\* C8: two candidates adjacent in the input, on the same page and with centers
\* less than 2.0pt apart, end up in the same merged record (also inside longer
\* chains); a merged record's text is its members' texts in order joined by
\* single spaces; candidates are never reordered.
C8_AdjacentMerged ==
    pc = "done" =>
        /\ \A i \in 1..(Len(candidates) - 1) :
              (candidates[i].page = candidates[i + 1].page
               /\ CentersClose(candidates[i], candidates[i + 1]))
              => RecordOf(candidates, i) = RecordOf(candidates, i + 1)
        /\ Len(merged) = Len(TaggedMerge(candidates))
        /\ \A k \in 1..Len(merged) :
              LET M == MembersOf(candidates, k)
                  lo == CHOOSE i \in M : \A j \in M : i <= j
                  hi == CHOOSE i \in M : \A j \in M : j <= i
              IN /\ M = lo..hi
                 /\ merged[k].text = JoinTexts(candidates, lo, hi)
                 /\ k > 1 => \A j \in MembersOf(candidates, k - 1) : j < lo

-----------------------------------------------------------------------------
(* detect_headings as one step *)

\* headings = detect_headings(spans, total_pages, max_level)
DetectHeadings ==
    /\ pc = "start"
    /\ \E r \in {detect_headings(spans, total_pages, max_level)} :
          /\ body_size' = r.body_size
          /\ recurring' = r.recurring
          /\ skipped' = r.skipped
          /\ candidates' = r.candidates
          /\ merged' = r.merged
          /\ score_to_level' = r.score_to_level
          /\ raw' = r.raw
          /\ headings' = r.headings
    /\ pc' = "done"
    /\ UNCHANGED <<spans, total_pages, max_level, scores, toc_text, parsed,
                   args, env, exit_status, message, written>>

InitDetectLocals ==
    /\ body_size = 0 /\ recurring = {} /\ skipped = <<>> /\ raw = <<>>
    /\ candidates = <<>> /\ merged = <<>> /\ scores = <<>> /\ score_to_level = <<>>
    /\ IdleToc /\ IdleCli

-----------------------------------------------------------------------------
(* Specification of detect_headings on documents with several heading styles *)

LevelSpanDom ==
    { MkSpan(TBody, 1000, FALSE, Box(30000, 31000), 0),
      MkSpan(TAb, 1400, TRUE, Box(10000, 11600), 0),
      MkSpan(TSec, 1400, FALSE, Box(20000, 21400), 0),
      MkSpan(TEf, 1000, TRUE, Box(25000, 26000), 0),
      MkSpan(TGh, 1400, FALSE, Box(20050, 21450), 0),
      MkSpan(TEf, 1000, TRUE, Box(25000, 26000), 1) }

InitLevels ==
    /\ pc = "start"
    /\ spans \in BoundedSeq(LevelSpanDom, MaxLevelSpans)
    /\ total_pages = 2
    /\ max_level \in -1..MaxLevelArg
    /\ InitDetectLocals

NextLevels == DetectHeadings

SpecLevels == InitLevels /\ [][NextLevels]_vars

\* the greatest level among the first n headings (0 when n = 0)
RECURSIVE MaxLevelBefore(_, _)
MaxLevelBefore(hs, n) ==
    IF n = 0 THEN 0 ELSE Max2(hs[n].level, MaxLevelBefore(hs, n - 1))

NoGap(hs) ==
    \A i \in 1..Len(hs) : hs[i].level <= MaxLevelBefore(hs, i - 1) + 1 /\ hs[i].level >= 1

\* C1: with max_level >= 1 the returned list has no gap: its first heading has
\* level 1 and every later level is at most one more than the greatest level
\* before it.
C1_NoGap ==
    (pc = "done" /\ max_level >= 1) =>
        /\ headings # <<>> => headings[1].level = 1
        /\ \A i \in 2..Len(headings) :
              headings[i].level <= MaxLevelBefore(headings, i - 1) + 1

\* the raw cluster levels had a gap and three headings are returned
C1_Witness ==
    /\ pc = "done" /\ max_level >= 1
    /\ ~NoGap(raw)
    /\ Len(headings) >= 3

\* C6: every returned heading has a level in 1..max_level; nothing is returned
\* when max_level < 1.
C6_LevelRange ==
    pc = "done" =>
        /\ \A i \in 1..Len(headings) :
              headings[i].level >= 1 /\ headings[i].level <= max_level
        /\ max_level < 1 => headings = <<>>

\* a heading beyond the cap was dropped and a heading at the cap is returned
C6_Witness ==
    /\ pc = "done"
    /\ Len(headings) < Len(merged)
    /\ \E i \in 1..Len(headings) : headings[i].level = max_level

-----------------------------------------------------------------------------
(* Specification of detect_headings on documents with page headers and footers *)

THd == <<"H", "d">>
THdVariant == <<"h", "D">>

ZoneLooks ==
    { [text |-> THd, size |-> 1400, bbox |-> Box(3000, 4400)],
      [text |-> THdVariant, size |-> 1400, bbox |-> Box(3000, 4400)],
      [text |-> THd, size |-> 1400, bbox |-> Box(40000, 41400)],
      [text |-> THd, size |-> 1400, bbox |-> Box(78000, 79400)],
      [text |-> THd, size |-> 1400, bbox |-> Box(6736, 8136)],
      [text |-> TBody, size |-> 1000, bbox |-> Box(3000, 4000)] }

RecSpanDom == {MkSpan(l.text, l.size, FALSE, l.bbox, p) : l \in ZoneLooks, p \in 0..2}

\* extract_spans emits pages in ascending order, each below len(doc)
InDocumentOrder(ss, tp) ==
    /\ \A i \in 1..Len(ss) : ss[i].page < tp
    /\ \A i \in 1..(Len(ss) - 1) : ss[i].page <= ss[i + 1].page

InitRecurring ==
    /\ pc = "start"
    /\ total_pages \in {2, 3, 10}
    /\ spans \in BoundedSeq(RecSpanDom, MaxRecSpans)
    /\ InDocumentOrder(spans, total_pages)
    /\ max_level = 6
    /\ InitDetectLocals

NextRecurring == DetectHeadings

SpecRecurring == InitRecurring /\ [][NextRecurring]_vars

\* the distinct pages on which the normalized text t occurs in the top or
\* bottom 8% of a 842pt page
ZonePages(ss, t) ==
    {ss[j].page : j \in {k \in 1..Len(ss) :
        /\ lower(strip(ss[k].text)) = t
        /\ (ss[k].bbox[2] < 6736 \/ ss[k].bbox[4] > 77464)}}

-----------------------------------------------------------------------------
(* Specification of detect_headings on documents with very short fragments *)

ShortSpanDom ==
    { MkSpan(TBody, 1000, FALSE, Box(30000, 31000), 0) }
    \cup {MkSpan(t, 1400, FALSE, Box(10000, 11400), 0) :
            t \in {TOne, <<"a">>, <<"7", ".">>, TAb, <<"1", "a">>}}
    \cup {MkSpan(t, 1000, FALSE, Box(20000, 21000), 0) : t \in {TOne, <<"a">>}}

InitShort ==
    /\ pc = "start"
    /\ total_pages = 1
    /\ spans \in BoundedSeq(ShortSpanDom, MaxShortSpans)
    /\ max_level = 6
    /\ InitDetectLocals

NextShort == DetectHeadings

SpecShort == InitShort /\ [][NextShort]_vars

\* C9: a span scoring above the body score whose trimmed text is shorter than
\* 2 characters is discarded unless the text starts with a digit; a
\* one-character digit fragment such as "1" is kept as a candidate.
C9_DigitFragmentKept ==
    pc = "done" =>
        \A i \in 1..Len(spans) :
            LET t == strip(spans[i].text)
            IN (/\ _effective_score(spans[i].size, spans[i].bold) > body_size
                /\ Len(t) < 2
                /\ skipped[i] \notin {"recurring", "caption"})
               => ((skipped[i] = "kept") <=> (t # <<>> /\ t[1] \in Digits))

-----------------------------------------------------------------------------
(* Specification of the TOC text format: format_toc followed by parse_toc *)

TitleDom ==
    { <<"A">>, <<"A", " ", " ", "b">>, <<>>, <<" ", "A">>, <<"A", " ">>,
      <<"A", "\n", "b">>, <<"(", "p", ".", " ", "1", ")">> }

TocHeadingDom == {Heading(t, l, p) : t \in TitleDom, l \in 1..3, p \in {0, 9}}

InitToc ==
    /\ pc = "start"
    /\ headings \in BoundedSeq(TocHeadingDom, MaxTocHeadings)
    /\ toc_text = <<>>
    /\ parsed = [exit |-> 0, headings |-> <<>>]
    /\ IdleSpans /\ IdleDetect /\ IdleMerge /\ IdleCluster /\ IdleCli

\* parsed = parse_toc(format_toc(headings))
RoundTrip ==
    /\ pc = "start"
    /\ toc_text' = format_toc(headings)
    /\ parsed' = parse_toc(format_toc(headings))
    /\ pc' = "done"
    /\ UNCHANGED <<spans, total_pages, max_level, body_size, recurring, skipped,
                   candidates, merged, scores, score_to_level, raw, headings,
                   args, env, exit_status, message, written>>

NextToc == RoundTrip

SpecToc == InitToc /\ [][NextToc]_vars

\* the title holds a "(p. N)"-like piece: "(p.", blanks, digits, ")"
HasPageMarker(t) ==
    \E i \in 1..Len(t) :
        /\ i + 2 <= Len(t)
        /\ t[i] = "(" /\ t[i + 1] = "p" /\ t[i + 2] = "."
        /\ LET d == i + 3 + SpaceRun(t, i + 3)
               e == d + DigitRun(t, d)
           IN e > d /\ e <= Len(t) /\ t[e] = ")"

ClaimedTitles(hs) ==
    \A i \in 1..Len(hs) : hs[i].level >= 1 /\ hs[i].page >= 0 /\ ~HasPageMarker(hs[i].text)

\* no title starts or ends with whitespace or holds a line break
TrimmedTitles(hs) ==
    \A i \in 1..Len(hs) :
        LET t == hs[i].text
        IN /\ t # <<>> => ~IsSpace(t[1]) /\ ~IsSpace(t[Len(t)])
           /\ \A j \in 1..Len(t) : t[j] # "\n"

-----------------------------------------------------------------------------
(* Specification of main *)

\* lines a TOC file may hold
TocLineDom ==
    { FormatLine(Heading(<<"A">>, 1, 0)),
      FormatLine(Heading(<<"B">>, 2, 1)),
      FormatLine(Heading(<<"C">>, 3, 0)),
      FormatLine(Heading(<<"D">>, 1, 2)),
      FormatLine(Heading(<<"E">>, 1, -1)),
      <<" ", "F", " ", " ", "(", "p", ".", " ", "1", ")">>,
      <<"G">>,
      <<>> }

TocFileDom ==
    {JoinLines(ls) \o <<"\n">> : ls \in BoundedSeq(TocLineDom, MaxTocLines) \ {<<>>}}
    \cup {<<>>}

\* documents: the page count and what extract_spans yields
DocDom ==
    { [num_pages |-> 1, spans |-> <<>>],
      [num_pages |-> 2,
       spans |-> << MkSpan(TBody, 1000, FALSE, Box(30000, 31000), 0),
                    MkSpan(TAb, 1400, TRUE, Box(10000, 11600), 0),
                    MkSpan(TSec, 1400, FALSE, Box(20000, 21400), 1) >>],
      [num_pages |-> 2,
       spans |-> << MkSpan(TSec, 1400, FALSE, Box(20000, 21400), 0),
                    MkSpan(TBody, 1000, FALSE, Box(30000, 31000), 0),
                    MkSpan(TAb, 1400, TRUE, Box(10000, 11600), 1),
                    MkSpan(TEf, 1000, TRUE, Box(25000, 26000), 1) >>] }

ArgsDom ==
    {[edit |-> ed, toc |-> tc, preview |-> pv, replace |-> rp, output |-> op,
      max_level |-> ml] :
        ed \in BOOLEAN, tc \in BOOLEAN, pv \in BOOLEAN, rp \in BOOLEAN,
        op \in BOOLEAN, ml \in {1, 6}}

\* what a run never reads is kept at one value
ReadsTocFile(a) == a.toc /\ ~a.edit /\ ~a.preview

RunsEditor(a) == a.edit /\ ~a.toc /\ ~a.preview

EnvDom(a) ==
    {[input_exists |-> ie, toc_exists |-> te, toc_file |-> tf, editor |-> er,
      edit_keeps |-> ek, edited |-> et] :
        ie \in BOOLEAN,
        te \in IF ReadsTocFile(a) THEN BOOLEAN ELSE {FALSE},
        tf \in IF ReadsTocFile(a) THEN TocFileDom ELSE {<<>>},
        er \in IF RunsEditor(a) THEN {"missing", "fails", "ok"} ELSE {"ok"},
        ek \in IF RunsEditor(a) THEN BOOLEAN ELSE {TRUE},
        et \in IF RunsEditor(a) THEN TocFileDom ELSE {<<>>}}

InitCli ==
    /\ pc = "start"
    /\ args \in {a \in ArgsDom : (a.replace => ~a.output) /\ (a.toc => a.max_level = 6)}
    /\ env \in {e \in EnvDom(args) :
                  /\ ~e.toc_exists => e.toc_file = <<>>
                  /\ (e.editor # "ok" \/ e.edit_keeps) => e.edited = <<>>}
    /\ \E d \in DocDom : spans = d.spans /\ total_pages = d.num_pages
    /\ max_level = args.max_level
    /\ exit_status = 0 /\ message = "" /\ written = <<>>
    /\ headings = <<>> /\ toc_text = <<>> /\ parsed = [exit |-> 0, headings |-> <<>>]
    /\ body_size = 0 /\ recurring = {} /\ skipped = <<>> /\ raw = <<>>
    /\ IdleMerge /\ IdleCluster

\* one run of main
Main ==
    /\ pc = "start"
    /\ \E r \in {main(args, env, spans, total_pages)} :
          /\ exit_status' = r.exit_status
          /\ message' = r.message
          /\ headings' = r.headings
          /\ written' = r.written
    /\ pc' = "done"
    /\ UNCHANGED <<spans, total_pages, max_level, body_size, recurring, skipped,
                   candidates, merged, scores, score_to_level, raw, toc_text,
                   parsed, args, env>>

NextCli == Main

SpecCli == InitCli /\ [][NextCli]_vars

\* the levels of the entries of a toc list
TocLevels(toc) == [i \in 1..Len(toc) |-> [level |-> toc[i][1]]]

\* C2: every heading list handed to write_toc is densely nested: its first
\* level is 1 and each level is at most one more than the greatest before it.
C2_WrittenDense ==
    \A k \in 1..Len(written) : NoGap(TocLevels(written[k].toc))

\* C3: a heading with a 1-based page outside 1..total_pages ends the run with
\* status 1 and without a call of write_toc; write_toc is called only with pages
\* in range, and never in a run that reports a page out of range.
C3_PagesChecked ==
    pc = "done" =>
        /\ (\E i \in 1..Len(headings) : headings[i].page + 1 \notin 1..total_pages)
              => (exit_status = 1 /\ written = <<>>)
        /\ \A k \in 1..Len(written) :
              /\ \A i \in 1..Len(written[k].toc) : written[k].toc[i][3] \in 1..total_pages
              /\ Len(written[k].toc) = Len(headings)
        /\ message = "page out of range" => (exit_status = 1 /\ written = <<>>)

\* a run that meets a page out of range after a heading whose page is in range
C3_Witness ==
    /\ pc = "done"
    /\ message = "page out of range"
    /\ Len(headings) >= 2
    /\ headings[1].page + 1 \in 1..total_pages
    /\ headings[2].page + 1 \notin 1..total_pages

=============================================================================
